---------------------------- MODULE Spec2Model ----------------------------
(***************************************************************************)
(* get_chunk: the chunk-size policy (src/src/chunk/mod.rs), the            *)
(* synchronous reader FileIter (src/src/chunk/iterator.rs) and the         *)
(* asynchronous reader FileStream (src/src/chunk/stream.rs).               *)
(*                                                                         *)
(* Numbers.  The program computes sizes and throughputs in f64.  The model *)
(* computes them exactly, as integer multiples of 1/Scale of a byte (or of *)
(* a byte per second): a real x is held as the integer x * Scale.  The     *)
(* factors 0.001, 0.85, 0.55 and 1.15 are exact on the values the model    *)
(* draws as long as ExactChunk holds; a pull whose target is not a         *)
(* multiple of 1/Scale lies outside the model and is not taken.            *)
(* File sizes, byte counts and memory sizes are whole numbers of bytes.    *)
(*                                                                         *)
(* Readers.  A FileIter and a FileStream share no state.  Spec constructs  *)
(* one reader, of either kind, and drives it; SpecPair constructs one of   *)
(* each on the same source and drives them read by read.                   *)
(***************************************************************************)
EXTENDS Integers, Sequences, FiniteSets, TLC

\* ------------------------------------------------------------- bounds
\* Largest small source, in bytes.
MaxSize == 3
\* A source large enough for Auto to start above one byte (0.1 % of it).
BigSize == 2000
\* Pulls of a FileIter, and polls of a FileStream that return Ready.
MaxPulls == 3
\* Physical reads that fail with an I/O error, per reader.
MaxErrors == 1
\* Polls in a row that find the task still running.
MaxPending == 2

\* ------------------------------------------------------------- numbers
Scale == 1000 * 20 * 20

Min(a, b) == IF a <= b THEN a ELSE b
Max(a, b) == IF a >= b THEN a ELSE b

\* The sentinel -1.0 of ChunkInfo::default.
Unset == 0 - Scale

\* `x as u64` / `x as usize` of an f64: the integer part, and 0 for a
\* negative x (the cast saturates).
AsInt(x) == Max(x, 0) \div Scale

\* ------------------------------------------------------------- inputs
\* Lengths of the source, in bytes.
Sizes == (0..MaxSize) \cup {BigSize}
\* Available memory, in bytes, as sysinfo reports it on one refresh.
RamValues == {0, 4}
\* Elapsed time of one read, in milliseconds (0: the timer measured nothing).
ElapsedValues == {0, 500, 1000000}
\* ChunkSize.  arg: the percentage (a real) of Percent, the bytes of Bytes.
Auto == [kind |-> "Auto", arg |-> 0]
Percent(p) == [kind |-> "Percent", arg |-> p]
Bytes(n) == [kind |-> "Bytes", arg |-> n]
\* Sizing modes a caller sets: Auto; 0.05 %, 80 %, 200 %; 2 bytes.
Modes == {Auto, Percent(Scale \div 20), Percent(80 * Scale),
          Percent(200 * Scale), Bytes(2)}
\* Arguments of set_start_position_bytes: the start, inside, past the end
\* of a small source.
Positions == {0, 1, MaxSize + 1}
\* SpecLive: sources that MaxPulls pulls read to their end one byte at a
\* time, timers that keep the Auto targets exact, and Bytes(0) as a mode.
LiveSizes == 0..(MaxPulls - 1)
LiveElapsedValues == {0, 1000000}
LiveModes == Modes \cup {Bytes(0)}
\* SpecBetween: the sources, the modes and the offsets set between two
\* pulls, the memory the pulls observe, the time a read takes.
BetweenSizes == {MaxSize, BigSize}
BetweenModes == {Percent(80 * Scale), Bytes(2)}
BetweenPositions == {1}
BetweenPercentPositions == {50 * Scale}
BetweenRam == 4
BetweenElapsed == 500
\* SpecCaller: the sources, the free swap of the host in bytes, the time of
\* a read.
CallerSizes == {MaxSize, BigSize}
SwapValues == {0, 8}
CallerElapsed == 500
\* Arguments of set_start_position_percent: -50 %, 50 % and 200 %.
PercentPositions == {0 - 50 * Scale, 50 * Scale, 200 * Scale}

\* The source: its byte at offset i - 1 is i, so that a lost, repeated or
\* misplaced byte shows in the output.
SourceByte(i) == i

\* ------------------------------------------------------------- policy
\* ram_available * 0.85
Ceiling(ram) == ram * 85 * (Scale \div 100)

default_chunk_size(file_size, ram_available) ==
    Min(file_size * (Scale \div 1000), Ceiling(ram_available))

\* Variant: the percentage taken as given, without its clamp.
percentage_chunk_unclamped(file_size, ram_available, percentage) ==
    Min(file_size * (percentage \div 100), Ceiling(ram_available))

percentage_chunk(file_size, ram_available, percentage) ==
    Min(file_size * (Max(Min(percentage, 100 * Scale), Scale \div 10) \div 100),
        Ceiling(ram_available))

bytes_chunk(file_size, ram_available, bytes) ==
    Min(file_size * Min(bytes, file_size) * (Scale \div 100),
        Ceiling(ram_available))

\* Variant: an increase of up to 25 % instead of 15 %.
increase_chunk_wider(ram_available, prev, now) ==
    Min(Min(now, prev + ((5 * prev) \div 20)), Ceiling(ram_available))

\* prev * (1 + min((now - prev) / prev, 0.15)), which for prev > 0 is
\* min(now, 1.15 * prev); then the ceiling.
increase_chunk(ram_available, prev, now) ==
    Min(Min(now, prev + ((3 * prev) \div 20)), Ceiling(ram_available))

\* Variant: a decrease of up to 55 % instead of 45 %.
decrease_chunk_deeper(ram_available, prev, now) ==
    Min(Max(now, prev - ((11 * prev) \div 20)), Ceiling(ram_available))

\* prev * (1 - min((prev - now) / prev, 0.45)), which for prev > 0 is
\* max(now, 0.55 * prev); then the ceiling.
decrease_chunk(ram_available, prev, now) ==
    Min(Max(now, prev - ((9 * prev) \div 20)), Ceiling(ram_available))

calculate_chunk(prev, now, size, ram, mode) ==
    CASE mode.kind = "Auto" ->
           IF prev > 0
           THEN IF now > 0
                THEN IF now < prev
                     THEN decrease_chunk(ram, prev, now)
                     ELSE increase_chunk(ram, prev, now)
                ELSE prev
           ELSE default_chunk_size(size, ram)
      [] mode.kind = "Percent" -> percentage_chunk(size, ram, mode.arg)
      [] mode.kind = "Bytes" -> bytes_chunk(size, ram, mode.arg)

\* The target of calculate_chunk is a multiple of 1/Scale: either Auto does
\* not scale prev by 0.55 or 1.15, or the product is whole.
ExactChunk(prev, now, mode) ==
    (mode.kind = "Auto" /\ prev > 0 /\ now > 0) =>
        IF now < prev
        THEN now >= prev - ((9 * prev) \div 20) \/ (9 * prev) % 20 = 0
        ELSE now <= prev + ((3 * prev) \div 20) \/ (3 * prev) % 20 = 0

\* ------------------------------------------------------------- memory
\* Memory::new.  system_info: what the latest refresh read from the host.
NewMemory ==
    [ram_available |-> 0, swap_check |-> FALSE,
     system_info |-> [available_memory |-> 0, free_swap |-> 0]]

\* Variant: the free swap is counted whether or not it was asked for.
update_ram_with_swap(memory, available, free_swap) ==
    [memory EXCEPT
        !.system_info.available_memory = available,
        !.system_info.free_swap = IF memory.swap_check THEN free_swap ELSE @,
        !.ram_available = available + free_swap]

\* Memory::update_ram, on a host that has `available` bytes of available
\* memory and `free_swap` bytes of free swap at this refresh; the swap is
\* refreshed only with swap_check.
update_ram(memory, available, free_swap) ==
    [memory EXCEPT
        !.system_info.available_memory = available,
        !.system_info.free_swap = IF memory.swap_check THEN free_swap ELSE @,
        !.ram_available =
            IF memory.swap_check THEN available + free_swap ELSE available]



\* ------------------------------------------------------------- state
VARIABLES
    size,       \* the length of the source the readers are opened on, in bytes
    iter,       \* the FileIter: [open, memory, file]
    iterOut,    \* what the pulls of the FileIter returned, in order
    iterLast,   \* the latest FileIter::next: its sizing and its read
    stream,     \* the FileStream: [open, memory, file, current_task], and
                \* in_flight: the tasks spawned that have not ended
    streamOut,  \* what the polls of the FileStream returned Ready with
    streamLast, \* the latest FileStream::poll_next: its sizing, and the
                \* polls that returned Pending since the last Ready
    sameTiming, \* SpecPair: every read of the stream so far took as long as
                \* the read of the same rank of the FileIter
    asked,      \* the argument of set_start_position_bytes, when that was
                \* the latest offset setter called
    askedPercent, \* the argument of set_start_position_percent, likewise
    askedMode   \* SpecBetween: the argument of the latest set_mode

iterVars == <<iter, iterOut, iterLast>>
streamVars == <<stream, streamOut, streamLast>>
vars == <<size, iter, iterOut, iterLast, stream, streamOut, streamLast,
          sameTiming, asked, askedPercent, askedMode>>

\* No I/O error on this read.
NoError == 0 - 1
\* No start position was set.
NotAsked == 0 - 1
\* set_mode was not called.
NoMode == [kind |-> "None", arg |-> 0]
\* Option::None of FilePack::buffer (stream.rs), where Some holds the cursor.
NoBuffer == 0 - 1

\* FilePack::new: metadata from FileInfo::new and ChunkInfo::default, the
\* cursor of the source at 0.
NewFilePack(file_size, start_position) ==
    [size |-> file_size,
     start_position |-> start_position,
     mode |-> Auto,
     now_bytes_per_second |-> Unset,
     prev_bytes_per_second |-> Unset,
     buffer |-> 0,
     read_complete |-> FALSE]

\* Variant: a default FilePack that holds a source, at offset 0.
DefaultFilePackOwning ==
    [size |-> 0,
     start_position |-> 0,
     mode |-> Auto,
     now_bytes_per_second |-> Unset,
     prev_bytes_per_second |-> Unset,
     buffer |-> 0,
     read_complete |-> FALSE]

\* FilePack::default of stream.rs, with FileInfo::default.
DefaultFilePack ==
    [size |-> 0,
     start_position |-> 0,
     mode |-> Auto,
     now_bytes_per_second |-> Unset,
     prev_bytes_per_second |-> Unset,
     buffer |-> NoBuffer,
     read_complete |-> FALSE]

\* Variant: the throughput in bytes per millisecond.
ThroughputPerMs(len, elapsed) == (len * Scale) \div elapsed

\* buffer.len() as f64 / timer.as_secs_f64(), the timer in milliseconds.
Throughput(len, elapsed) == (len * 1000 * Scale) \div elapsed

\* Variant: The bound of the read without its floor of one byte.
TakeLimitNoFloor(file) == AsInt(Max(file.prev_bytes_per_second, 0))

\* Variant: The bound of the read rounded up instead of truncated.
TakeLimitCeil(file) ==
    AsInt(Max(file.prev_bytes_per_second, Scale) + Scale - 1)

\* The bound of the read: prev_bytes_per_second.max(1.0) as u64.
TakeLimit(file) == AsInt(Max(file.prev_bytes_per_second, Scale))

\* The bytes take(limit).read_to_end gets from the cursor on.
Readable(file) ==
    Min(TakeLimit(file), Max(size - file.buffer, 0))

\* The n bytes of the source after the cursor.
BytesAt(cursor, n) == [i \in 1..n |-> SourceByte(cursor + i)]

\* The bytes a read that fails has taken from the source before the call
\* that fails: at most io of them, and fewer than the bound of the read,
\* since at the bound take() ends the read without another call.
Consumed(file, io) == Min(Min(io, Readable(file)), TakeLimit(file) - 1)

\* Variant: the read that sets read_complete when it fails.
timed_read_fused(file, elapsed, io) ==
    LET n == Readable(file)
    IN  IF io # NoError
        THEN [file |-> [file EXCEPT !.buffer = @ + Consumed(file, io),
                                    !.read_complete = TRUE],
              ok |-> FALSE, value |-> <<>>, bytes_per_second |-> 0]
        ELSE [file |-> [file EXCEPT !.buffer = @ + n,
                                    !.read_complete = (n = 0) \/ @],
              ok |-> TRUE,
              value |-> BytesAt(file.buffer, n),
              bytes_per_second |->
                  IF elapsed # 0 THEN Throughput(n, elapsed)
                  ELSE file.prev_bytes_per_second]

\* Variant: the read that sets read_complete as soon as the cursor is at
\* the end of the source.
timed_read_eager(file, elapsed, io) ==
    LET n == Readable(file)
    IN  IF io # NoError
        THEN [file |-> [file EXCEPT !.buffer = @ + Consumed(file, io)],
              ok |-> FALSE, value |-> <<>>, bytes_per_second |-> 0]
        ELSE [file |-> [file EXCEPT !.buffer = @ + n,
                                    !.read_complete = (@ \/ file.buffer + n >= size)],
              ok |-> TRUE,
              value |-> BytesAt(file.buffer, n),
              bytes_per_second |->
                  IF elapsed # 0 THEN Throughput(n, elapsed)
                  ELSE file.prev_bytes_per_second]

\* Variant: the read that leaves the cursor of the source where it was.
timed_read_stuck(file, elapsed, io) ==
    LET n == Readable(file)
    IN  IF io # NoError
        THEN [file |-> file,
              ok |-> FALSE, value |-> <<>>, bytes_per_second |-> 0]
        ELSE [file |-> [file EXCEPT !.read_complete = (n = 0) \/ @],
              ok |-> TRUE,
              value |-> BytesAt(file.buffer, n),
              bytes_per_second |->
                  IF elapsed # 0 THEN Throughput(n, elapsed)
                  ELSE file.prev_bytes_per_second]

\* The timed, bounded read of both read_chunk.  io = NoError: the read
\* succeeds; otherwise read_to_end fails after taking Consumed(file, io)
\* bytes, which stay taken: the cursor is not moved back.
timed_read(file, elapsed, io) ==
    LET n == Readable(file)
    IN  IF io # NoError
        THEN [file |-> [file EXCEPT !.buffer = @ + Consumed(file, io)],
              ok |-> FALSE, value |-> <<>>, bytes_per_second |-> 0]
        ELSE [file |-> [file EXCEPT !.buffer = @ + n,
                                    !.read_complete = (n = 0) \/ @],
              ok |-> TRUE,
              value |-> BytesAt(file.buffer, n),
              bytes_per_second |->
                  IF elapsed # 0 THEN Throughput(n, elapsed)
                  ELSE file.prev_bytes_per_second]

\* FilePack::read_chunk of iterator.rs.
read_chunk(file, elapsed, io) == timed_read(file, elapsed, io)

\* Variant: the task returns the FilePack as it was given it.
stream_read_chunk_rewound(file, elapsed, io) ==
    IF file.buffer = NoBuffer
    THEN [state |-> "io_err", file |-> DefaultFilePack,
          value |-> <<>>, bytes_per_second |-> 0]
    ELSE LET r == timed_read(file, elapsed, io)
         IN  IF r.ok
             THEN [state |-> "ok", file |-> file,
                   value |-> r.value, bytes_per_second |-> r.bytes_per_second]
             ELSE [state |-> "io_err", file |-> DefaultFilePack,
                   value |-> <<>>, bytes_per_second |-> 0]

\* FilePack::read_chunk of stream.rs, as the outcome of the task that runs
\* it: the task owns the FilePack and, on an error, returns the error
\* alone, dropping the FilePack.
stream_read_chunk(file, elapsed, io) ==
    IF file.buffer = NoBuffer
    THEN [state |-> "io_err", file |-> DefaultFilePack,
          value |-> <<>>, bytes_per_second |-> 0]
    ELSE LET r == timed_read(file, elapsed, io)
         IN  IF r.ok
             THEN [state |-> "ok", file |-> r.file,
                   value |-> r.value, bytes_per_second |-> r.bytes_per_second]
             ELSE [state |-> "io_err", file |-> DefaultFilePack,
                   value |-> <<>>, bytes_per_second |-> 0]

\* current_task: None
NoTask == [state |-> "none", file |-> DefaultFilePack,
           value |-> <<>>, bytes_per_second |-> 0]
\* Variant: The task is given the FilePack before the target was stored in it.
RunningUnsized(file) ==
    [state |-> "running",
     file |-> [file EXCEPT !.prev_bytes_per_second = Unset],
     value |-> <<>>, bytes_per_second |-> 0]

\* current_task: Some(handle) of a task that has not finished.
Running(file) == [state |-> "running", file |-> file,
                  value |-> <<>>, bytes_per_second |-> 0]

\* Entries of a reader's log, by kind.
Count(out, kind) == Cardinality({i \in 1..Len(out) : out[i].kind = kind})
\* Pulls, or polls that returned Ready, so far.
Pulls(out) == Len(out)

\* The outcomes of one read: no error, or an error after 0 or 1 bytes.
IoValues == {NoError, 0, 1}

Entry(kind, value) == [kind |-> kind, value |-> value]

\* Variant: every successful read is yielded as a chunk.
YieldAlways(value) == Entry("chunk", value)

\* if !chunk.value.is_empty() { Some(Ok(chunk.value)) } else { None }
Yield(value) ==
    IF value # <<>> THEN Entry("chunk", value) ELSE Entry("end", <<>>)

\* The call of calculate_chunk that opens next and poll_next.
Sizing(file, memory) ==
    [target |-> calculate_chunk(file.prev_bytes_per_second,
                                file.now_bytes_per_second, file.size,
                                memory.ram_available, file.mode),
     ram |-> memory.ram_available,
     prev |-> file.prev_bytes_per_second,
     now |-> file.now_bytes_per_second,
     mode |-> file.mode,
     size |-> file.size]

NoSizing == [target |-> Unset, ram |-> 0, prev |-> Unset, now |-> Unset,
             mode |-> Auto, size |-> 0]
NoPull == [sizing |-> NoSizing, elapsed |-> 0, io |-> NoError]
NoPoll == [sizing |-> NoSizing, pending |-> 0]

NewIter(open) ==
    [open |-> open, memory |-> NewMemory, file |-> NewFilePack(size, 0)]
NewStream(open) ==
    [open |-> open, memory |-> NewMemory, file |-> NewFilePack(size, 0),
     current_task |-> NoTask, in_flight |-> 0]

\* One reader is constructed on the source: a FileIter or a FileStream.
Init ==
    /\ size \in Sizes
    /\ \E sync \in BOOLEAN : iter = NewIter(sync) /\ stream = NewStream(~sync)
    /\ iterOut = <<>>
    /\ iterLast = NoPull
    /\ streamOut = <<>>
    /\ streamLast = NoPoll
    /\ sameTiming = TRUE
    /\ asked = NotAsked
    /\ askedPercent = NotAsked
    /\ askedMode = NoMode

\* ------------------------------------------------------------- FileIter
\* Nothing was pulled from the reader yet.
Fresh(out) == out = <<>>

\* FileIter::next, on a host with `available` bytes of memory and `free_swap`
\* bytes of swap, and a read that takes `elapsed` and ends as `io`.
IterNextWith(available, free_swap, elapsed, io) ==
    LET memory == update_ram(iter.memory, available, free_swap)
        sizing == Sizing(iter.file, memory)
        sized == [iter.file EXCEPT !.prev_bytes_per_second = sizing.target]
        r == read_chunk(sized, elapsed, io)
    IN  /\ iter.open
        /\ Pulls(iterOut) < MaxPulls
        /\ ExactChunk(sizing.prev, sizing.now, iter.file.mode)
        /\ io # NoError => Count(iterOut, "err") < MaxErrors
        /\ iter' = [iter EXCEPT
                      !.memory = memory,
                      !.file = IF r.ok
                               THEN [r.file EXCEPT !.now_bytes_per_second =
                                                      r.bytes_per_second]
                               ELSE r.file]
        /\ iterOut' = Append(iterOut,
              IF ~r.ok THEN Entry("err", <<>>) ELSE Yield(r.value))
        /\ iterLast' = [sizing |-> sizing, elapsed |-> elapsed, io |-> io]

\* FileIter::next of a reader that was not told to count the swap.
IterNextOn(available, elapsed, io) == IterNextWith(available, 0, elapsed, io)

\* FileIter::include_available_swap
IterIncludeSwapNow ==
    /\ iter.open
    /\ iter' = [iter EXCEPT !.memory.swap_check = TRUE]
    /\ UNCHANGED <<iterOut, iterLast>>

\* FileIter::set_mode
IterSetModeTo(mode) ==
    /\ iter.open
    /\ iter' = [iter EXCEPT !.file.mode = mode]
    /\ UNCHANGED <<iterOut, iterLast>>

\* Variant: the position stored and sought as given, without its clamp.
IterSetStartBytesUnclamped(position) ==
    /\ iter.open
    /\ iterOut = <<>>
    /\ iter' = [iter EXCEPT !.file.start_position = position,
                            !.file.buffer = position]
    /\ UNCHANGED <<iterOut, iterLast>>

\* FileIter::set_start_position_bytes; the seek of the source succeeds.
IterSetStartBytesTo(position) ==
    LET start == Min(position, iter.file.size)
    IN  /\ iter.open
        /\ Fresh(iterOut)
        /\ iter' = [iter EXCEPT !.file.start_position = start,
                                !.file.buffer = start]
        /\ UNCHANGED <<iterOut, iterLast>>

\* Variant: the start position capped at the size of the source.
PercentStartInSource(file_size, position_percent) ==
    AsInt(Min(file_size * (position_percent \div 100), file_size * Scale))

\* The start position of both set_start_position_percent:
\* (size * (position_percent / 100.0)).min(100.0) as usize
PercentStart(file_size, position_percent) ==
    AsInt(Min(file_size * (position_percent \div 100), 100 * Scale))

\* FileIter::set_start_position_percent; the seek of the source succeeds,
\* also to a position past its end.
IterSetStartPercentTo(position_percent) ==
    LET start == PercentStart(iter.file.size, position_percent)
    IN  /\ iter.open
        /\ Fresh(iterOut)
        /\ iter' = [iter EXCEPT !.file.start_position = start,
                                !.file.buffer = start]
        /\ UNCHANGED <<iterOut, iterLast>>

\* ------------------------------------------------------------- FileStream
\* FileStream::set_mode
StreamSetModeTo(mode) ==
    /\ stream.open
    /\ stream' = [stream EXCEPT !.file.mode = mode]
    /\ UNCHANGED <<streamOut, streamLast>>

\* FileStream::set_start_position_bytes; the seek of the source succeeds.
\* Without a buffer the call returns an error, and the stream it consumed
\* is gone.
StreamSetStartBytesTo(position) ==
    LET start == Min(position, stream.file.size)
    IN  /\ stream.open
        /\ stream' = IF stream.file.buffer # NoBuffer
                     THEN [stream EXCEPT !.file.start_position = start,
                                         !.file.buffer = start]
                     ELSE [stream EXCEPT !.file.start_position = start,
                                         !.open = FALSE]
        /\ UNCHANGED <<streamOut, streamLast>>

\* FileStream::set_start_position_percent, likewise.
StreamSetStartPercentTo(position_percent) ==
    LET start == PercentStart(stream.file.size, position_percent)
    IN  /\ stream.open
        /\ stream' = IF stream.file.buffer # NoBuffer
                     THEN [stream EXCEPT !.file.start_position = start,
                                         !.file.buffer = start]
                     ELSE [stream EXCEPT !.file.start_position = start,
                                         !.open = FALSE]
        /\ UNCHANGED <<streamOut, streamLast>>

\* The background task finishes FilePack::read_chunk on the FilePack it
\* owns; the read takes `elapsed` and ends as `io`.
TaskRunOn(elapsed, io) ==
    /\ stream.open
    /\ stream.current_task.state = "running"
    /\ io # NoError => Count(streamOut, "err") < MaxErrors
    /\ stream' = [stream EXCEPT
                     !.current_task =
                         stream_read_chunk(stream.current_task.file, elapsed, io),
                     !.in_flight = @ - 1]
    /\ UNCHANGED <<streamOut, streamLast>>

\* The background task ends without returning from read_chunk (it
\* panicked or was cancelled): awaiting its handle gives a JoinError, and
\* the FilePack it owned is dropped with it.
TaskFailNow ==
    /\ stream.open
    /\ stream.current_task.state = "running"
    /\ Count(streamOut, "err") < MaxErrors
    /\ stream' = [stream EXCEPT
                     !.current_task = [NoTask EXCEPT !.state = "join_err"],
                     !.in_flight = @ - 1]
    /\ UNCHANGED <<streamOut, streamLast>>

\* Variant: a poll stores its target in the FilePack of the running task.
task_poll_resizing(task, target) ==
    IF task.state = "running"
    THEN [task EXCEPT !.file.prev_bytes_per_second = target]
    ELSE task

\* task.poll(cx): the poll of the handle.  The FilePack the task owns is
\* out of the reach of the stream, whatever target this poll computed.
task_poll(task, target) == task

\* Variant: a task is spawned also while one is running.
ShouldSpawnAlways(task) == task.state \in {"none", "running"}

\* if this.current_task.is_none()
ShouldSpawn(task) == task.state = "none"

\* FileStream::poll_next, on a host with `available` bytes of memory and
\* `free_swap` bytes of swap.
StreamPollWith(available, free_swap) ==
    LET memory == update_ram(stream.memory, available, free_swap)
        sizing == Sizing(stream.file, memory)
        sized == [stream.file EXCEPT !.prev_bytes_per_second = sizing.target]
        spawn == ShouldSpawn(stream.current_task)
        \* the task takes the FilePack, mem::take leaves the default one
        task == IF spawn THEN Running(sized)
                ELSE task_poll(stream.current_task, sizing.target)
        kept == IF spawn THEN DefaultFilePack ELSE sized
    IN  /\ stream.open
        /\ Pulls(streamOut) < MaxPulls
        /\ ExactChunk(sizing.prev, sizing.now, stream.file.mode)
        /\ \/ /\ task.state = "running"
              /\ streamLast.pending < MaxPending
              /\ stream' = [stream EXCEPT
                    !.memory = memory, !.file = kept, !.current_task = task,
                    !.in_flight = IF spawn THEN @ + 1 ELSE @]
              /\ streamOut' = streamOut
              /\ streamLast' = [sizing |-> sizing,
                                pending |-> streamLast.pending + 1]
           \/ /\ task.state = "ok"
              /\ stream' = [stream EXCEPT
                    !.memory = memory,
                    !.current_task = NoTask,
                    !.file = [task.file EXCEPT !.now_bytes_per_second =
                                                  task.bytes_per_second]]
              /\ streamOut' = Append(streamOut, Yield(task.value))
              /\ streamLast' = [sizing |-> sizing, pending |-> 0]
           \/ /\ task.state \in {"io_err", "join_err"}
              /\ stream' = [stream EXCEPT !.memory = memory, !.file = kept,
                                          !.current_task = NoTask]
              /\ streamOut' = Append(streamOut, Entry("err", <<>>))
              /\ streamLast' = [sizing |-> sizing, pending |-> 0]

\* FileStream::poll_next of a reader that was not told to count the swap.
StreamPollOn(available) == StreamPollWith(available, 0)

\* FileStream::include_available_swap
StreamIncludeSwapNow ==
    /\ stream.open
    /\ stream' = [stream EXCEPT !.memory.swap_check = TRUE]
    /\ UNCHANGED <<streamOut, streamLast>>

\* Variant: dropping the stream aborts its task.
DroppedAborting(s) ==
    [s EXCEPT !.open = FALSE, !.current_task = NoTask, !.in_flight = 0]

\* The FileStream is dropped.  It has no Drop of its own: its fields are
\* dropped, and dropping the JoinHandle detaches the task, which goes on.
Dropped(s) == [s EXCEPT !.open = FALSE]

StreamDropNow ==
    /\ stream.open
    /\ stream' = Dropped(stream)
    /\ UNCHANGED <<streamOut, streamLast>>

\* The task of a dropped stream ends: what read_chunk returns, the chunk
\* and the FilePack with the source, is dropped with the task.
DetachedTaskRunNow ==
    /\ ~stream.open
    /\ stream.current_task.state = "running"
    /\ stream' = [stream EXCEPT !.current_task = NoTask,
                                 !.in_flight = @ - 1]
    /\ UNCHANGED <<streamOut, streamLast>>

\* ------------------------------------------------------------- one reader
\* Spec and SpecPair configure a reader as a builder does: before its
\* first pull, or its first poll.
Unpolled == Fresh(streamOut) /\ streamLast = NoPoll

IterNext ==
    /\ \E available \in RamValues, elapsed \in ElapsedValues, io \in IoValues :
        IterNextOn(available, elapsed, io)
    /\ UNCHANGED <<size, streamVars, sameTiming, asked, askedPercent, askedMode>>

IterSetMode ==
    /\ Fresh(iterOut)
    /\ \E mode \in Modes : IterSetModeTo(mode)
    /\ UNCHANGED <<size, streamVars, sameTiming, asked, askedPercent, askedMode>>

IterSetStartBytes ==
    /\ \E position \in Positions :
        /\ IterSetStartBytesTo(position)
        /\ asked' = position /\ askedPercent' = NotAsked
    /\ UNCHANGED <<size, streamVars, sameTiming, askedMode>>

IterSetStartPercent ==
    /\ \E position_percent \in PercentPositions :
        /\ IterSetStartPercentTo(position_percent)
        /\ askedPercent' = position_percent /\ asked' = NotAsked
    /\ UNCHANGED <<size, streamVars, sameTiming, askedMode>>

StreamSetStartPercent ==
    /\ Unpolled
    /\ \E position_percent \in PercentPositions :
        /\ StreamSetStartPercentTo(position_percent)
        /\ askedPercent' = position_percent /\ asked' = NotAsked
    /\ UNCHANGED <<size, iterVars, sameTiming, askedMode>>

StreamPoll ==
    /\ \E available \in RamValues : StreamPollOn(available)
    /\ UNCHANGED <<size, iterVars, sameTiming, asked, askedPercent, askedMode>>

TaskRun ==
    /\ \E elapsed \in ElapsedValues, io \in IoValues : TaskRunOn(elapsed, io)
    /\ UNCHANGED <<size, iterVars, sameTiming, asked, askedPercent, askedMode>>

TaskFail ==
    /\ TaskFailNow
    /\ UNCHANGED <<size, iterVars, sameTiming, asked, askedPercent, askedMode>>

StreamSetMode ==
    /\ Unpolled
    /\ \E mode \in Modes : StreamSetModeTo(mode)
    /\ UNCHANGED <<size, iterVars, sameTiming, asked, askedPercent, askedMode>>

StreamSetStartBytes ==
    /\ Unpolled
    /\ \E position \in Positions :
        /\ StreamSetStartBytesTo(position)
        /\ asked' = position /\ askedPercent' = NotAsked
    /\ UNCHANGED <<size, iterVars, sameTiming, askedMode>>

Next ==
    \/ IterNext \/ IterSetMode \/ IterSetStartBytes \/ IterSetStartPercent
    \/ StreamPoll \/ TaskRun \/ StreamSetMode \/ StreamSetStartBytes
    \/ StreamSetStartPercent \/ TaskFail

Spec == Init /\ [][Next]_vars

\* ------------------------------------------------------------- two readers
\* A FileIter and a FileStream are constructed on the same source.
InitPair ==
    /\ size \in Sizes
    /\ iter = NewIter(TRUE)
    /\ stream = NewStream(TRUE)
    /\ iterOut = <<>>
    /\ iterLast = NoPull
    /\ streamOut = <<>>
    /\ streamLast = NoPoll
    /\ sameTiming = TRUE
    /\ asked = NotAsked
    /\ askedPercent = NotAsked
    /\ askedMode = NoMode

\* Both readers are given the same sizing mode.
PairSetMode ==
    /\ Fresh(iterOut) /\ Unpolled
    /\ \E mode \in Modes : IterSetModeTo(mode) /\ StreamSetModeTo(mode)
    /\ UNCHANGED <<size, sameTiming, asked, askedPercent, askedMode>>

\* Both readers are given the same start offset.
PairSetStartBytes ==
    /\ Unpolled
    /\ \E position \in Positions :
        /\ IterSetStartBytesTo(position)
        /\ StreamSetStartBytesTo(position)
        /\ asked' = position /\ askedPercent' = NotAsked
    /\ UNCHANGED <<size, sameTiming, askedMode>>

PairSetStartPercent ==
    /\ Unpolled
    /\ \E position_percent \in PercentPositions :
        /\ IterSetStartPercentTo(position_percent)
        /\ StreamSetStartPercentTo(position_percent)
        /\ askedPercent' = position_percent /\ asked' = NotAsked
    /\ UNCHANGED <<size, sameTiming, askedMode>>

\* The readers share nothing, so the order of their steps is free: the
\* FileIter makes its k-th pull, then the FileStream its k-th read.  The
\* reads of the source succeed.
PairIterNext ==
    /\ Pulls(streamOut) = Pulls(iterOut)
    /\ \E available \in RamValues, elapsed \in ElapsedValues :
        IterNextOn(available, elapsed, NoError)
    /\ UNCHANGED <<size, streamVars, sameTiming, asked, askedPercent, askedMode>>

\* The polls that start and collect the k-th read of the stream observe
\* the memory the k-th pull of the FileIter observed.
PairStreamPoll ==
    /\ Pulls(streamOut) < Pulls(iterOut)
    /\ StreamPollOn(iterLast.sizing.ram)
    /\ UNCHANGED <<size, iterVars, sameTiming, asked, askedPercent, askedMode>>

\* The k-th read of the stream takes a time of its own.
PairTaskRun ==
    /\ \E elapsed \in ElapsedValues :
        /\ TaskRunOn(elapsed, NoError)
        /\ sameTiming' = (sameTiming /\ elapsed = iterLast.elapsed)
    /\ UNCHANGED <<size, iterVars, asked, askedPercent, askedMode>>

NextPair ==
    \/ PairSetMode \/ PairSetStartBytes \/ PairSetStartPercent
    \/ PairIterNext
    \/ PairStreamPoll \/ PairTaskRun

SpecPair == InitPair /\ [][NextPair]_vars

\* ------------------------------------------------------------- to the end
\* One reader is pulled, or polled, for as long as it can be: its reads
\* succeed, its tasks end, and it is polled again after each of them.
InitLive ==
    /\ size \in LiveSizes
    /\ \E sync \in BOOLEAN : iter = NewIter(sync) /\ stream = NewStream(~sync)
    /\ iterOut = <<>>
    /\ iterLast = NoPull
    /\ streamOut = <<>>
    /\ streamLast = NoPoll
    /\ sameTiming = TRUE
    /\ asked = NotAsked
    /\ askedPercent = NotAsked
    /\ askedMode = NoMode

LiveIterSetMode ==
    /\ Fresh(iterOut)
    /\ \E mode \in LiveModes : IterSetModeTo(mode)
    /\ UNCHANGED <<size, streamVars, sameTiming, asked, askedPercent, askedMode>>

LiveStreamSetMode ==
    /\ Unpolled
    /\ \E mode \in LiveModes : StreamSetModeTo(mode)
    /\ UNCHANGED <<size, iterVars, sameTiming, asked, askedPercent, askedMode>>

LiveIterNext ==
    /\ \E available \in RamValues, elapsed \in LiveElapsedValues :
        IterNextOn(available, elapsed, NoError)
    /\ UNCHANGED <<size, streamVars, sameTiming, asked, askedPercent, askedMode>>

LiveTaskRun ==
    /\ \E elapsed \in LiveElapsedValues, io \in IoValues :
        TaskRunOn(elapsed, io)
    /\ UNCHANGED <<size, iterVars, sameTiming, asked, askedPercent, askedMode>>

NextLive ==
    \/ LiveIterSetMode \/ IterSetStartBytes \/ IterSetStartPercent
    \/ LiveIterNext
    \/ LiveStreamSetMode \/ StreamSetStartBytes \/ StreamSetStartPercent
    \/ StreamPoll \/ LiveTaskRun \/ TaskFail

SpecLive ==
    /\ InitLive /\ [][NextLive]_vars
    /\ WF_vars(LiveIterNext)
    /\ WF_vars(StreamPoll)
    /\ WF_vars(LiveTaskRun \/ TaskFail)

\* ------------------------------------------------------------- between pulls
\* One reader is reconfigured at any time of its life: before its first
\* pull, between two pulls or polls, while its task is running.
InitBetween ==
    /\ size \in BetweenSizes
    /\ \E sync \in BOOLEAN : iter = NewIter(sync) /\ stream = NewStream(~sync)
    /\ iterOut = <<>>
    /\ iterLast = NoPull
    /\ streamOut = <<>>
    /\ streamLast = NoPoll
    /\ sameTiming = TRUE
    /\ asked = NotAsked
    /\ askedPercent = NotAsked
    /\ askedMode = NoMode

BetweenIterSetMode ==
    /\ \E mode \in BetweenModes : IterSetModeTo(mode) /\ askedMode' = mode
    /\ UNCHANGED <<size, streamVars, sameTiming, asked, askedPercent>>

BetweenStreamSetMode ==
    /\ \E mode \in BetweenModes : StreamSetModeTo(mode) /\ askedMode' = mode
    /\ UNCHANGED <<size, iterVars, sameTiming, asked, askedPercent>>

BetweenStreamSetStartBytes ==
    /\ \E position \in BetweenPositions :
        /\ StreamSetStartBytesTo(position)
        /\ asked' = position /\ askedPercent' = NotAsked
    /\ UNCHANGED <<size, iterVars, sameTiming, askedMode>>

BetweenStreamSetStartPercent ==
    /\ \E position_percent \in BetweenPercentPositions :
        /\ StreamSetStartPercentTo(position_percent)
        /\ askedPercent' = position_percent /\ asked' = NotAsked
    /\ UNCHANGED <<size, iterVars, sameTiming, askedMode>>

BetweenIterNext ==
    /\ IterNextOn(BetweenRam, BetweenElapsed, NoError)
    /\ UNCHANGED <<size, streamVars, sameTiming, asked, askedPercent, askedMode>>

BetweenStreamPoll ==
    /\ StreamPollOn(BetweenRam)
    /\ UNCHANGED <<size, iterVars, sameTiming, asked, askedPercent, askedMode>>

BetweenTaskRun ==
    /\ \E io \in IoValues : TaskRunOn(BetweenElapsed, io)
    /\ UNCHANGED <<size, iterVars, sameTiming, asked, askedPercent, askedMode>>

NextBetween ==
    \/ BetweenIterSetMode \/ BetweenIterNext
    \/ BetweenStreamSetMode
    \/ BetweenStreamSetStartBytes \/ BetweenStreamSetStartPercent
    \/ BetweenStreamPoll \/ BetweenTaskRun \/ TaskFail

SpecBetween == InitBetween /\ [][NextBetween]_vars

\* ------------------------------------------------------------- the caller
\* One reader, whose caller may ask for the swap to be counted, at any
\* time, and may drop the stream, at any time.
InitCaller ==
    /\ size \in CallerSizes
    /\ \E sync \in BOOLEAN : iter = NewIter(sync) /\ stream = NewStream(~sync)
    /\ iterOut = <<>>
    /\ iterLast = NoPull
    /\ streamOut = <<>>
    /\ streamLast = NoPoll
    /\ sameTiming = TRUE
    /\ asked = NotAsked
    /\ askedPercent = NotAsked
    /\ askedMode = NoMode

IterIncludeSwap ==
    /\ IterIncludeSwapNow
    /\ UNCHANGED <<size, streamVars, sameTiming, asked, askedPercent, askedMode>>

StreamIncludeSwap ==
    /\ StreamIncludeSwapNow
    /\ UNCHANGED <<size, iterVars, sameTiming, asked, askedPercent, askedMode>>

CallerIterNext ==
    /\ \E available \in RamValues, free_swap \in SwapValues :
        IterNextWith(available, free_swap, CallerElapsed, NoError)
    /\ UNCHANGED <<size, streamVars, sameTiming, asked, askedPercent, askedMode>>

CallerStreamPoll ==
    /\ \E available \in RamValues, free_swap \in SwapValues :
        StreamPollWith(available, free_swap)
    /\ UNCHANGED <<size, iterVars, sameTiming, asked, askedPercent, askedMode>>

CallerTaskRun ==
    /\ \E io \in IoValues : TaskRunOn(CallerElapsed, io)
    /\ UNCHANGED <<size, iterVars, sameTiming, asked, askedPercent, askedMode>>

StreamDrop ==
    /\ StreamDropNow
    /\ UNCHANGED <<size, iterVars, sameTiming, asked, askedPercent, askedMode>>

DetachedTaskRun ==
    /\ DetachedTaskRunNow
    /\ UNCHANGED <<size, iterVars, sameTiming, asked, askedPercent, askedMode>>

NextCaller ==
    \/ IterIncludeSwap \/ CallerIterNext
    \/ StreamIncludeSwap \/ CallerStreamPoll \/ CallerTaskRun \/ TaskFail
    \/ StreamDrop \/ DetachedTaskRun

SpecCaller == InitCaller /\ [][NextCaller]_vars

\* ------------------------------------------------------------- properties
\* The bytes of the chunks of a log, in the order they were yielded.
RECURSIVE Delivered(_)
Delivered(out) ==
    IF out = <<>> THEN <<>>
    ELSE Delivered(SubSeq(out, 1, Len(out) - 1)) \o out[Len(out)].value

Ended(out) == Count(out, "end") > 0
Failed(out) == Count(out, "err") > 0
Last(out) == out[Len(out)]
\* The FilePack of the stream, held by the stream or by its task.
StreamPack ==
    IF stream.current_task.state \in {"running", "ok"}
    THEN stream.current_task.file ELSE stream.file
\* The first chunk of a log is yielded before any read failed.
FirstChunkAt(out, i) ==
    /\ i \in 1..Len(out)
    /\ out[i].kind = "chunk"
    /\ \A j \in 1..(i - 1) : out[j].kind \notin {"chunk", "err"}
\* clamp(p, 0.1, 100)
Clamp(p) == IF p < Scale \div 10 THEN Scale \div 10
            ELSE IF p > 100 * Scale THEN 100 * Scale ELSE p

\* C1: with no I/O error, the chunks a FileIter has yielded so far are, in
\* order, the bytes of the source from the start offset on, without a gap,
\* a repeat or a swap; at the end signal they are all of them.
C1_RoundTrip ==
    (iter.open /\ ~Failed(iterOut)) =>
        LET got == Delivered(iterOut)
        IN  /\ got = BytesAt(iter.file.start_position, Len(got))
            /\ Ended(iterOut) =>
                   Len(got) = Max(size - iter.file.start_position, 0)

\* A FileIter that started at offset 1 of 3 bytes reached the end in more
\* than one chunk.
C1_Witness ==
    /\ iter.open /\ ~Failed(iterOut) /\ Ended(iterOut)
    /\ size = 3 /\ iter.file.start_position = 1
    /\ Count(iterOut, "chunk") = 2

C3_BytesChunks ==
    (/\ iter.open /\ iterOut # <<>>
     /\ iter.file.mode.kind = "Bytes" /\ iter.file.mode.arg >= 1
     /\ Last(iterOut).kind = "chunk"
     /\ iter.file.buffer < size
     /\ Ceiling(iterLast.sizing.ram) >=
            Min(iter.file.mode.arg, size) * Scale) =>
        Len(Last(iterOut).value) = Min(iter.file.mode.arg, size)

\* C4: a sizing in Percent(p) mode whose ceiling does not bind gives
\* S * clamp(p, 0.1, 100) / 100, whatever the throughput history; when
\* that is at least 1, a chunk has at most its whole part of bytes, and
\* exactly that many unless it is the last of the source.
C4_PercentChunks ==
    LET want(z) == size * (Clamp(z.mode.arg) \div 100)
        holds(z) == (z.mode.kind = "Percent" /\ want(z) <= Ceiling(z.ram))
                        => z.target = want(z)
    IN  /\ iter.open => holds(iterLast.sizing)
        /\ stream.open => holds(streamLast.sizing)
        /\ (/\ iter.open /\ iterOut # <<>>
            /\ iterLast.sizing.mode.kind = "Percent"
            /\ Last(iterOut).kind = "chunk"
            /\ want(iterLast.sizing) <= Ceiling(iterLast.sizing.ram)
            /\ want(iterLast.sizing) >= Scale) =>
               /\ Len(Last(iterOut).value) <= AsInt(want(iterLast.sizing))
               /\ iter.file.buffer < size =>
                      Len(Last(iterOut).value) = AsInt(want(iterLast.sizing))

\* A FileIter in Percent(80) mode on 3 bytes yielded 2 bytes, then 1.
C4_Witness ==
    /\ iter.open /\ size = 3 /\ ~Failed(iterOut)
    /\ iter.file.mode = Percent(80 * Scale)
    /\ Len(iterOut) = 2
    /\ iterOut[1].kind = "chunk" /\ Len(iterOut[1].value) = 2
    /\ iterOut[2].kind = "chunk" /\ Len(iterOut[2].value) = 1
    /\ Ceiling(iterLast.sizing.ram) > 0

\* C5: a sizing in Percent(p) mode with p below 0.1 gives what Percent(0.1)
\* gives, and with p above 100 what Percent(100) gives, on the same source
\* and memory; the chunk read under it has the bytes the clamped mode reads.
C5_PercentClamped ==
    LET same(z) == (z.mode.kind = "Percent" /\ Clamp(z.mode.arg) # z.mode.arg)
                       => z.target = percentage_chunk(size, z.ram,
                                                      Clamp(z.mode.arg))
        z == iterLast.sizing
    IN  /\ iter.open => same(z)
        /\ stream.open => same(streamLast.sizing)
        /\ (/\ iter.open /\ iterOut # <<>>
            /\ z.mode.kind = "Percent" /\ Clamp(z.mode.arg) # z.mode.arg
            /\ Last(iterOut).kind = "chunk") =>
               LET clamped == percentage_chunk(size, z.ram, Clamp(z.mode.arg))
                   n == Len(Last(iterOut).value)
               IN  n = Min(AsInt(Max(clamped, Scale)),
                           size - (iter.file.buffer - n))

\* A FileIter in Percent(0.05) mode yielded 2 of 2000 bytes, the 0.1 % of
\* the clamped mode.
C5_Witness ==
    /\ iter.open /\ iterOut # <<>> /\ Last(iterOut).kind = "chunk"
    /\ iter.file.mode = Percent(Scale \div 20) /\ size = BigSize
    /\ Len(Last(iterOut).value) = 2

\* C6: is_read_complete() of a FileIter is true exactly when a pull has read
\* zero bytes; that of a FileStream is false until a poll has returned such
\* a read, and true when that poll returns.  The pull that delivers the last
\* byte leaves it false.
C6_ReadComplete ==
    /\ iter.open =>
         /\ iter.file.read_complete <=> Ended(iterOut)
         /\ (iterOut # <<>> /\ Last(iterOut).kind = "chunk"
             /\ iter.file.buffer = size) => ~iter.file.read_complete
    /\ stream.open =>
         /\ ~Ended(streamOut) => ~stream.file.read_complete
         /\ (streamOut # <<>> /\ Last(streamOut).kind = "end"
             /\ streamLast.pending = 0) => stream.file.read_complete

\* A FileIter on 2 bytes in Percent(80) mode yielded 1 byte twice, with the
\* flag false after the second, and then the end signal, which set it.
C6_Witness ==
    /\ iter.open /\ size = 2 /\ iter.file.mode = Percent(80 * Scale)
    /\ Len(iterOut) = 3
    /\ iterOut[1].kind = "chunk" /\ iterOut[2].kind = "chunk"
    /\ iterOut[3].kind = "end"
    /\ iter.file.read_complete

\* C7, as stated: the target of every pull or poll is at most 0.85 times
\* the available memory that pull or poll observed.
C7_Ceiling ==
    /\ (iter.open /\ iterOut # <<>>) =>
           iterLast.sizing.target <= Ceiling(iterLast.sizing.ram)
    /\ (stream.open /\ streamLast # NoPoll) =>
           streamLast.sizing.target <= Ceiling(streamLast.sizing.ram)

\* C8, as stated: once is_read_complete() is true it stays true, and no
\* later pull or poll yields a chunk.
C8_Exhausted ==
    [][/\ (iter.open /\ iter.file.read_complete) =>
            /\ iter'.file.read_complete
            /\ iterOut' # iterOut => Last(iterOut').kind # "chunk"
       /\ (stream.open /\ stream.file.read_complete) =>
            /\ stream'.file.read_complete
            /\ streamOut' # streamOut => Last(streamOut').kind # "chunk"]_vars

\* C9, as stated: an Auto sizing with a previous target P and an achieved
\* throughput N gives 0.55 P <= next <= 1.15 P and next <= 0.85 A.
C9_AutoBounds ==
    LET holds(z) == (z.mode.kind = "Auto" /\ z.prev > 0 /\ z.now > 0) =>
                        /\ 20 * z.target >= 11 * z.prev
                        /\ 20 * z.target <= 23 * z.prev
                        /\ z.target <= Ceiling(z.ram)
    IN  /\ iter.open => holds(iterLast.sizing)
        /\ stream.open => holds(streamLast.sizing)

\* C9, amended: it gives next <= 1.15 P and next <= 0.85 A, and
\* next >= 0.55 P unless the ceiling 0.85 A is below that, when it gives
\* the ceiling.
C9_AutoBoundsUnderCeiling ==
    LET holds(z) == (z.mode.kind = "Auto" /\ z.prev > 0 /\ z.now > 0) =>
                        /\ 20 * z.target <= 23 * z.prev
                        /\ z.target <= Ceiling(z.ram)
                        /\ \/ 20 * z.target >= 11 * z.prev
                           \/ z.target = Ceiling(z.ram)
    IN  /\ iter.open => holds(iterLast.sizing)
        /\ stream.open => holds(streamLast.sizing)

\* An Auto sizing with history cut the target by the full 45 %, under a
\* ceiling that did not bind.
C9_Witness ==
    LET z == iterLast.sizing
    IN  /\ iter.open /\ z.mode.kind = "Auto" /\ z.prev > 0 /\ z.now > 0
        /\ 20 * z.target = 11 * z.prev
        /\ z.target < Ceiling(z.ram)

\* C10: after set_start_position_bytes(k) the stored start offset is
\* min(k, S), and the first chunk, when no read failed before it, begins
\* with the byte at offset min(k, S) of the source.
C10_StartPosition ==
    LET start == Min(asked, size)
        first(out) == \A i \in 1..Len(out) :
                          FirstChunkAt(out, i) =>
                              out[i].value[1] = SourceByte(start + 1)
    IN  asked # NotAsked =>
          /\ iter.open =>
               /\ iter.file.start_position = start
               /\ first(iterOut)
          /\ stream.open =>
               /\ (/\ ~Failed(streamOut)
                   /\ stream.current_task.state \notin {"io_err", "join_err"})
                      => StreamPack.start_position = start
               /\ first(streamOut)

\* A FileStream set to start at offset 1 of 3 bytes yielded a first chunk.
C10_Witness ==
    /\ stream.open /\ asked = 1 /\ size = 3
    /\ \E i \in 1..Len(streamOut) : FirstChunkAt(streamOut, i)

\* The latest offset setter asked for an offset at or beyond the size of
\* the source: k >= S bytes, or p percent with S * p / 100 >= S.
AskedAtOrBeyond ==
    \/ asked # NotAsked /\ asked >= size
    \/ askedPercent # NotAsked
       /\ size * (askedPercent \div 100) >= size * Scale
\* The first pull or Ready poll of a log, unless its read failed, returned
\* the end signal, and no chunk was yielded.
OnlyEnd(out) ==
    /\ Count(out, "chunk") = 0
    /\ (out # <<>> /\ out[1].kind # "err") => out[1].kind = "end"

\* C11, as stated: a reader whose offset setter, in bytes or in percent, was
\* given an offset at or beyond the size of the source returns the end
\* signal on its first pull and never yields a chunk.
C11_BeyondExhausted ==
    AskedAtOrBeyond =>
        /\ iter.open => OnlyEnd(iterOut)
        /\ stream.open => OnlyEnd(streamOut)

\* C12, as stated: after set_start_position_percent(p) with 0 <= p <= 100
\* the start position is floor(S * p / 100), and the first chunk, when no
\* read failed before it, begins with the byte at that offset.
C12_PercentStart ==
    LET start == AsInt(size * (askedPercent \div 100))
        first(out) == \A i \in 1..Len(out) :
                          FirstChunkAt(out, i) =>
                              out[i].value[1] = SourceByte(start + 1)
    IN  (/\ askedPercent # NotAsked
         /\ askedPercent >= 0 /\ askedPercent <= 100 * Scale) =>
          /\ iter.open => (iter.file.start_position = start /\ first(iterOut))
          /\ stream.open => first(streamOut)

\* C13, as stated: the stored start offset of a reader lies in
\* [0, total_size].
C13_StartInRange ==
    /\ iter.open => iter.file.start_position \in 0..size
    /\ (stream.open /\ StreamPack.buffer # NoBuffer) =>
           StreamPack.start_position \in 0..size

\* C14, as stated: get_file_size() of a reader returns the size of its
\* source, at every point of its lifetime.
C14_FileSize ==
    /\ iter.open => iter.file.size = size
    /\ stream.open => stream.file.size = size

C16_ErrorOnce ==
    stream.open =>
        \A i, j \in 1..Len(streamOut) :
            (i < j /\ streamOut[i].kind = "err") => streamOut[j].kind = "end"

\* C17: at most one task of a FileStream is in flight, and it is the one
\* the stream holds the handle of.
C17_OneTask ==
    stream.open =>
        /\ stream.in_flight \in {0, 1}
        /\ stream.in_flight = 1 <=> stream.current_task.state = "running"

\* A FileStream was polled again while its task was running.
C17_Witness ==
    /\ stream.open /\ stream.in_flight = 1
    /\ streamLast.pending = 2

\* The reference function of the Auto policy, with the tests `unsetP` and
\* `unsetN` of its first two cases left open.
AutoReference(P, N, S, A, unsetP, unsetN) ==
    LET \* P * min(0.45, (P - N) / P) and P * min(0.15, (N - P) / P)
        down == IF 20 * (P - N) <= 9 * P THEN P - N ELSE (9 * P) \div 20
        up == IF P = 0 THEN 0
              ELSE IF 20 * (N - P) <= 3 * P THEN N - P ELSE (3 * P) \div 20
    IN  IF unsetP THEN Min(S * (Scale \div 1000), Ceiling(A))
        ELSE IF unsetN THEN P
        ELSE IF N < P THEN Min(P - down, Ceiling(A))
        ELSE Min(P + up, Ceiling(A))

C19_NotBoth ==
    (stream.open /\ stream.current_task.state # "none") =>
        stream.file.buffer = NoBuffer

\* The task of a FileStream on 3 bytes is running and holds the source.
C19_Witness ==
    /\ stream.open /\ size = 3
    /\ stream.current_task.state = "running"
    /\ stream.current_task.file.buffer # NoBuffer
    /\ stream.file.buffer = NoBuffer

\* C20, as stated: whenever a FileStream holds no task, it holds its source
\* and the metadata of it.
C20_Reclaimed ==
    (stream.open /\ stream.current_task.state = "none") =>
        /\ stream.file.buffer # NoBuffer
        /\ stream.file.size = size


\* A step of FileStream::poll_next: only a poll writes streamLast.
IsPoll == streamLast' # streamLast
\* A step of FileIter::next: only a pull writes the log of the FileIter.
IsPull == iterOut' # iterOut

\* C21: a poll that finds the task running returns Pending, starts no task
\* and leaves the task, with the FilePack it reads from, as it was; the
\* poll that collects the task stores the FilePack the task returns, with
\* the throughput the task measured, however many polls came before it.
C21_PendingPollsInert ==
    [][(stream.open /\ IsPoll) =>
         /\ stream.current_task.state = "running" =>
                /\ streamOut' = streamOut
                /\ streamLast'.pending = streamLast.pending + 1
                /\ stream'.current_task = stream.current_task
                /\ stream'.in_flight = stream.in_flight
         /\ stream.current_task.state = "ok" =>
                stream'.file =
                    [stream.current_task.file EXCEPT
                        !.now_bytes_per_second =
                            stream.current_task.bytes_per_second]]_vars

\* A FileStream on the large source was polled again while its task was
\* running: that poll computed a target of 0 on the FilePack it found, and
\* the read in flight is still bounded by 2 bytes.
C21_Witness ==
    /\ stream.open /\ size = BigSize
    /\ stream.current_task.state = "running"
    /\ streamLast.pending = 2
    /\ TakeLimit(stream.current_task.file) = 2
    /\ stream.file.prev_bytes_per_second = 0

\* C22, as stated: a read of a FileIter that succeeds with a timer of zero
\* leaves the achieved throughput as it was stored before the read.
C22_ZeroElapsedCarries ==
    [][(/\ iter.open /\ IsPull
        /\ iterLast'.io = NoError /\ iterLast'.elapsed = 0) =>
           iter'.file.now_bytes_per_second
               = iter.file.now_bytes_per_second]_vars

\* C23, as stated: after a pull of a FileIter, prev_bytes_per_second is the
\* number of bytes the read asked the source for, and now_bytes_per_second
\* is the throughput measured for the read.
C23_PrevIsBound ==
    (iter.open /\ iterOut # <<>>) =>
        /\ iter.file.prev_bytes_per_second = TakeLimit(iter.file) * Scale
        /\ (iterLast.io = NoError /\ iterLast.elapsed # 0) =>
               iter.file.now_bytes_per_second =
                   Throughput(Len(Last(iterOut).value), iterLast.elapsed)

\* C23, amended: after a pull of a FileIter, prev_bytes_per_second is the
\* target of that pull, and the read asked for max(1, floor(target))
\* bytes: it got that many, or the rest of the source.  When the read
\* succeeded, now_bytes_per_second is the throughput measured, or the
\* target when the timer was zero; when it failed, it is unchanged.
C23_PrevIsTarget ==
    [][(iter.open /\ IsPull) =>
         LET target == iterLast'.sizing.target
             got == Len(Last(iterOut').value)
         IN  /\ iter'.file.prev_bytes_per_second = target
             /\ iterLast'.io = NoError =>
                  /\ got = Min(AsInt(Max(target, Scale)),
                               Max(size - iter.file.buffer, 0))
                  /\ iter'.file.now_bytes_per_second =
                         IF iterLast'.elapsed # 0
                         THEN (got * 1000 * Scale) \div iterLast'.elapsed
                         ELSE target
             /\ iterLast'.io # NoError =>
                    iter'.file.now_bytes_per_second
                        = iter.file.now_bytes_per_second]_vars

\* A pull in Percent(80) mode on 3 bytes had the target 2.4, read 2 bytes
\* in half a second and stored 4 bytes per second.
C23_Witness ==
    /\ iter.open /\ size = 3 /\ Len(iterOut) = 1
    /\ iter.file.prev_bytes_per_second = 24 * (Scale \div 10)
    /\ Len(iterOut[1].value) = 2
    /\ iterLast.elapsed = 500
    /\ iter.file.now_bytes_per_second = 4 * Scale

\* C26: every chunk a reader yielded has at least one byte, and at most
\* max(1, floor(target)) bytes, the target being the one of the pull that
\* read it, or of the poll that started the task that read it; a read of
\* no byte is returned as the end signal.
C26_ChunkBounded ==
    LET nonempty(out) == \A i \in 1..Len(out) :
                             out[i].kind = "chunk" <=> out[i].value # <<>>
    IN  /\ iter.open =>
              /\ nonempty(iterOut)
              /\ (iterOut # <<>> /\ Last(iterOut).kind = "chunk") =>
                     Len(Last(iterOut).value)
                         <= Max(1, AsInt(iterLast.sizing.target))
        /\ stream.open =>
              /\ nonempty(streamOut)
              /\ (/\ streamOut # <<>> /\ Last(streamOut).kind = "chunk"
                  /\ stream.current_task.state = "none"
                  /\ streamLast.pending = 0) =>
                     Len(Last(streamOut).value)
                         <= Max(1, AsInt(stream.file.prev_bytes_per_second))

\* A FileStream yielded 1 byte under a target of 0, then the end signal.
C26_Witness ==
    /\ stream.open /\ size = 1 /\ Len(streamOut) = 2
    /\ streamOut[1].kind = "chunk" /\ streamOut[2].kind = "end"
    /\ stream.current_task.state = "none"
    /\ stream.file.prev_bytes_per_second = 0

C30_NoByteLoss ==
    (iter.open /\ Failed(iterOut)) =>
        LET got == Delivered(iterOut)
        IN  got = BytesAt(iter.file.start_position, Len(got))

\* C24: with no I/O error, a FileIter that is pulled again and again
\* returns the end signal, after at most S - start_offset chunks (none when
\* the start offset is at or beyond S), whatever its sizing mode and the
\* memory its pulls observe.
C24_Terminates ==
    /\ [](iter.open =>
            Count(iterOut, "chunk") <= Max(size - iter.file.start_position, 0))
    /\ <>(iter.open => Ended(iterOut))

\* A FileIter in Bytes(0) mode yielded its source byte by byte, then the
\* end signal.
C24_Witness ==
    /\ iter.open /\ size = MaxPulls - 1 /\ iter.file.mode = Bytes(0)
    /\ Count(iterOut, "chunk") = size
    /\ Last(iterOut).kind = "end"

\* C25: when the tasks of a FileStream end and the stream is polled again
\* after each, a poll that returned Pending is followed by a poll that
\* returns Ready; and the stream returns the end of the stream, unless a
\* read or a task failed.
C25_StreamLive ==
    /\ (stream.open /\ streamLast.pending > 0)
           ~> (streamLast.pending = 0 /\ streamOut # <<>>)
    /\ <>(stream.open => (Ended(streamOut) \/ Failed(streamOut)))

\* A FileStream yielded its source in two chunks, then the end of the
\* stream.
C25_Witness ==
    /\ stream.open /\ Len(streamOut) = 3
    /\ streamOut[1].kind = "chunk" /\ streamOut[2].kind = "chunk"
    /\ streamOut[3].kind = "end"
    /\ stream.current_task.state = "none"

\* C27, as stated: a pull of a FileIter sizes its read, and a poll of a
\* FileStream that starts a task sizes the read of that task, in the mode
\* the latest set_mode asked for, whenever set_mode was called.
C27_ModeGoverns ==
    [][askedMode # NoMode =>
         /\ (iter.open /\ IsPull) => iterLast'.sizing.mode = askedMode
         /\ (/\ stream.open /\ IsPoll /\ ~Failed(streamOut)
             /\ stream.current_task.state = "none") =>
                /\ streamLast'.sizing.mode = askedMode
                /\ stream'.current_task.file.mode = askedMode]_vars

\* C28, as stated: a call of an offset setter of a FileStream, the seek of
\* which succeeds, returns the stream, its source at the offset stored.
C28_SettersSucceed ==
    [][(/\ stream.open
        /\ (asked' # asked \/ askedPercent' # askedPercent)) =>
           /\ stream'.open
           /\ stream'.file.buffer = stream'.file.start_position]_vars

\* What the latest refresh of a Memory read from the host, counted as
\* include_available_swap asks: the available memory, with the free swap
\* when swap_check is set.
HostMemory(memory) ==
    memory.system_info.available_memory
        + (IF memory.swap_check THEN memory.system_info.free_swap ELSE 0)

\* C31: the memory a pull or a poll sizes its read with is the available
\* memory the host has at that pull, with its free swap when
\* include_available_swap was called and without it otherwise; no value of
\* an earlier pull is used.  swap_check is false until that call, which
\* sets it and nothing else, and stays set.
C31_MemoryFresh ==
    /\ ~iter.memory.swap_check /\ ~stream.memory.swap_check
    /\ [][/\ (iter.open /\ IsPull) =>
               /\ iter'.memory.swap_check = iter.memory.swap_check
               /\ iter'.memory.ram_available = HostMemory(iter'.memory)
               /\ iterLast'.sizing.ram = iter'.memory.ram_available
               /\ iterLast'.sizing.ram \in
                      {a + (IF iter.memory.swap_check THEN w ELSE 0) :
                           a \in RamValues, w \in SwapValues}
          /\ (iter.open /\ ~IsPull) =>
               /\ iter.memory.swap_check => iter'.memory.swap_check
               /\ iter'.memory.ram_available = iter.memory.ram_available
          /\ (stream.open /\ IsPoll) =>
               /\ stream'.memory.swap_check = stream.memory.swap_check
               /\ stream'.memory.ram_available = HostMemory(stream'.memory)
               /\ streamLast'.sizing.ram = stream'.memory.ram_available
          /\ (stream.open /\ ~IsPoll) =>
               /\ stream.memory.swap_check => stream'.memory.swap_check
               /\ stream'.memory.ram_available
                      = stream.memory.ram_available]_vars

\* A FileIter told to count the swap sized a read with 4 bytes of memory
\* and 8 of swap, after one with 4 bytes and none.
C31_Witness ==
    /\ iter.open /\ iter.memory.swap_check /\ Len(iterOut) = 2
    /\ iterLast.sizing.ram = 12
    /\ iter.memory.system_info = [available_memory |-> 4, free_swap |-> 8]

\* C32: dropping a FileStream leaves its task as it is, running when it
\* was; the task of a dropped stream ends later on its own, and what it
\* returns reaches no one: nothing is yielded and no FilePack is kept.
C32_DropDetaches ==
    [][/\ (stream.open /\ ~stream'.open) =>
            /\ stream'.current_task = stream.current_task
            /\ stream'.in_flight = stream.in_flight
            /\ streamOut' = streamOut
       /\ ~stream.open =>
            /\ ~stream'.open
            /\ streamOut' = streamOut
            /\ stream'.file = stream.file
            /\ stream'.current_task # stream.current_task =>
                   /\ stream.current_task.state = "running"
                   /\ stream'.current_task = NoTask
                   /\ stream'.in_flight = stream.in_flight - 1]_vars

\* A FileStream was dropped after a poll that returned Pending, and its
\* task has ended since.
C32_Witness ==
    /\ ~stream.open /\ ~iter.open
    /\ streamLast.pending > 0
    /\ stream.file.buffer = NoBuffer
    /\ stream.current_task = NoTask /\ stream.in_flight = 0

=============================================================================
